---- MODULE Spec2Model ----
(***************************************************************************)
(* The Dice entity of lesson-23-x/src/entities/dice.rs: construction       *)
(* (mesh upload, bounding box), the update() drain loop, set_transform()   *)
(* and render().                                                           *)
(*                                                                         *)
(* f32 values are modelled as records: F(n) is the number n, NaN is the    *)
(* not-a-number value; comparisons follow IEEE (any comparison with NaN is *)
(* false).  An isometry is modelled by a translation along x, a natural    *)
(* number; 0 is the identity.                                              *)
(***************************************************************************)
EXTENDS Integers, Sequences, FiniteSets, TLC

\* ---------------------------------------------------------------- bounds
MaxVerts == 2
MaxCoord == 1
MaxMeshes == 2
MaxIso == 2
MaxQueue == 3

\* ---------------------------------------------------------------- values
None == [some |-> FALSE]
Some(v) == [some |-> TRUE, val |-> v]

F(n) == [nan |-> FALSE, v |-> n]
NaN == [nan |-> TRUE]
\* f32 `<`, `>` and `<=`: false whenever an operand is NaN
Lt(a, b) == ~a.nan /\ ~b.nan /\ a.v < b.v
Gt(a, b) == ~a.nan /\ ~b.nan /\ a.v > b.v
Le(a, b) == ~a.nan /\ ~b.nan /\ a.v <= b.v
\* unary minus of an f32 (-0.0 compares equal to 0.0: both are F(0))
Neg(a) == IF a.nan THEN a ELSE F(0 - a.v)

\* sequences over S of length at most n
SeqUpTo(S, n) == UNION {[1..k -> S] : k \in 0..n}

\* ------------------------------------------------ mesh upload (l.134-156)
\* mesh::Tangents::nans(): every component NaN
Tangents_nans == [tangent |-> <<NaN, NaN, NaN>>]

\* (variant: a missing tangent falls back to zeros and to silence)
map_vertex_zero_tangent(v) ==
    LET tv == IF v.tangents.some THEN v.tangents.val
              ELSE [tangent |-> <<F(0), F(0), F(0)>>]
        uv == IF v.uv.some THEN v.uv.val ELSE <<F(0), F(0)>>
        normal == IF v.normal.some THEN v.normal.val ELSE <<F(0), F(0), F(0)>>
    IN [record |-> [pos |-> v.pos,
                    uv |-> <<uv[1], Neg(uv[2])>>,
                    t |-> tv.tangent,
                    n |-> normal],
        prints |-> (IF v.uv.some THEN <<>> ELSE <<"Missing uv vectors">>)
                   \o (IF v.normal.some THEN <<>> ELSE <<"Missing normal vectors">>)]

\* the closure of the map over mesh.vertices: the uploaded record of one
\* source vertex and the lines it prints (the uv is stored in half
\* precision, which is exact on the values used here)
map_vertex(v) ==
    LET tv == IF v.tangents.some THEN v.tangents.val ELSE Tangents_nans
        uv == IF v.uv.some THEN v.uv.val ELSE <<F(0), F(0)>>
        normal == IF v.normal.some THEN v.normal.val ELSE <<F(0), F(0), F(0)>>
    IN [record |-> [pos |-> v.pos,
                    uv |-> <<uv[1], Neg(uv[2])>>,
                    t |-> tv.tangent,
                    n |-> normal],
        prints |-> (IF v.tangents.some THEN <<>> ELSE <<"Missing tangent vectors">>)
                   \o (IF v.uv.some THEN <<>> ELSE <<"Missing uv vectors">>)
                   \o (IF v.normal.some THEN <<>> ELSE <<"Missing normal vectors">>)]

\* vbo_data: the records the map collects, vertex after vertex
RECURSIVE vbo_data_of(_)
vbo_data_of(vertices) ==
    IF vertices = <<>> THEN <<>>
    ELSE <<map_vertex(Head(vertices)).record>> \o vbo_data_of(Tail(vertices))

\* what the map prints, vertex after vertex
RECURSIVE prints_of(_)
prints_of(vertices) ==
    IF vertices = <<>> THEN <<>>
    ELSE map_vertex(Head(vertices)).prints \o prints_of(Tail(vertices))

\* ------------------------------------------- bounding box (l.207-248)
update_min(val, new) ==
    IF ~val.some THEN Some(new)
    ELSE IF Lt(new, val.val) THEN Some(new) ELSE val

\* (variant: the running maximum is never raised)
update_max_keep_first(val, new) == IF ~val.some THEN Some(new) ELSE val

update_max(val, new) ==
    IF ~val.some THEN Some(new)
    ELSE IF Gt(new, val.val) THEN Some(new) ELSE val

\* the `for v in &vbo_data` loop, from the running extrema e
RECURSIVE scan(_, _)
scan(e, vbo) ==
    IF vbo = <<>> THEN e
    ELSE LET v == Head(vbo)
         IN scan([min |-> <<update_min(e.min[1], v.pos[1]),
                            update_min(e.min[2], v.pos[2]),
                            update_min(e.min[3], v.pos[3])>>,
                  max |-> <<update_max(e.max[1], v.pos[1]),
                            update_max(e.max[2], v.pos[2]),
                            update_max(e.max[3], v.pos[3])>>],
                 Tail(vbo))

initial_isometry == 0

\* AABB::new(mins, maxs)
AABB_new(mins, maxs) == [mins |-> mins, maxs |-> maxs]

\* selectables.selectable(aabb, isometry): the handle, with the pose the
\* registry holds for it
selectable(aabb, isometry) == [aabb |-> aabb, isometry |-> isometry]

\* (variant: an empty vertex set gets a box at the origin)
selectable_aabb_always(vbo) ==
    LET e == scan([min |-> <<None, None, None>>, max |-> <<None, None, None>>], vbo)
    IN IF \A i \in 1..3 : e.min[i].some /\ e.max[i].some
       THEN Some(selectable(AABB_new(<<e.min[1].val, e.min[2].val, e.min[3].val>>,
                                     <<e.max[1].val, e.max[2].val, e.max[3].val>>),
                            initial_isometry))
       ELSE Some(selectable(AABB_new(<<F(0), F(0), F(0)>>, <<F(0), F(0), F(0)>>),
                            initial_isometry))

\* the selectable_aabb field initialiser
selectable_aabb_of(vbo) ==
    LET e == scan([min |-> <<None, None, None>>, max |-> <<None, None, None>>], vbo)
    IN IF \A i \in 1..3 : e.min[i].some /\ e.max[i].some
       THEN Some(selectable(AABB_new(<<e.min[1].val, e.min[2].val, e.min[3].val>>,
                                     <<e.max[1].val, e.max[2].val, e.max[3].val>>),
                            initial_isometry))
       ELSE None

\* debug_lines.ray_markers(isometry, markers): two markers per vertex
ray_markers(isometry, vbo) == [isometry |-> isometry, markers |-> 2 * Len(vbo)]

\* ------------------------------------------------ Dice::new (l.95-250)
NoDice == [built |-> FALSE]

\* res: [shader_ok, obj_ok, materials (how many), meshes (each with a
\* material_index and its vertices)]
Dice_new(r) ==
    IF ~r.shader_ok THEN [result |-> "Err", dice |-> NoDice, vbo |-> <<>>, out |-> <<>>]
    ELSE IF ~r.obj_ok THEN [result |-> "Err", dice |-> NoDice, vbo |-> <<>>, out |-> <<>>]
    ELSE
      LET material_index == IF r.materials > 0 THEN Some(0) ELSE None
          matching == SelectSeq(r.meshes, LAMBDA m : m.material_index = material_index)
      IN IF matching = <<>>
         THEN [result |-> "panic", dice |-> NoDice, vbo |-> <<>>, out |-> <<>>]
         ELSE LET mesh == Head(matching)
                  vbo_data == vbo_data_of(mesh.vertices)
              IN [result |-> "Ok",
                  dice |-> [built |-> TRUE,
                            transform |-> initial_isometry,
                            debug_tangent_normals |-> ray_markers(initial_isometry, vbo_data),
                            selectable_aabb |-> selectable_aabb_of(vbo_data)],
                  vbo |-> vbo_data,
                  out |-> prints_of(mesh.vertices)]

\* --------------------------------------- Dice::set_transform (l.264-270)
\* SelectableAABB::update_isometry and RayMarkers::update_isometry: the
\* handle keeps the pose it was last sent
update_isometry(handle, isometry) == [handle EXCEPT !.isometry = isometry]

\* (variant: the overlay is not told)
set_transform_skips_overlay(self, isometry) ==
    [self EXCEPT !.transform = isometry,
                 !.selectable_aabb =
                     IF @.some THEN Some(update_isometry(@.val, isometry)) ELSE @]

\* (variant: the isometry is applied on top of the current one)
set_transform_relative(self, isometry) ==
    LET sum == IF self.transform + isometry > MaxIso THEN MaxIso
               ELSE self.transform + isometry
    IN [self EXCEPT !.transform = sum,
                    !.selectable_aabb =
                        IF @.some THEN Some(update_isometry(@.val, sum)) ELSE @,
                    !.debug_tangent_normals = update_isometry(@, sum)]

set_transform(self, isometry) ==
    [self EXCEPT !.transform = isometry,
                 !.selectable_aabb =
                     IF @.some THEN Some(update_isometry(@.val, isometry)) ELSE @,
                 !.debug_tangent_normals = update_isometry(@, isometry)]

\* ------------------------------------------------ Dice::update (l.252-262)
Click == [kind |-> "Click"]
Drag(new_isometry) == [kind |-> "Drag", new_isometry |-> new_isometry]

\* SelectableAABB::drain_pending_action: at most one pending action, the
\* oldest; none when the queue is empty
drain_pending_action(queue) ==
    IF queue = <<>> THEN [action |-> None, rest |-> queue]
    ELSE [action |-> Some(Head(queue)), rest |-> Tail(queue)]

\* the calls one tick makes on its collaborators, in order
SelectFx == [kind |-> "select"]
SetTransformFx(isometry) == [kind |-> "set_transform", isometry |-> isometry]

\* (variant: a Drag is drained and dropped)
update_iteration_drops_drag(self, queue, log) ==
    LET d == IF self.selectable_aabb.some THEN drain_pending_action(queue)
             ELSE [action |-> None, rest |-> queue]
        action == d.action
    IN IF action.some /\ action.val.kind = "Click"
       THEN [self |-> self, queue |-> d.rest, brk |-> FALSE,
             log |-> [consumed |-> Append(log.consumed, action.val),
                      effects |-> Append(log.effects, SelectFx)]]
       ELSE IF action.some /\ action.val.kind = "Drag"
       THEN [self |-> self, queue |-> d.rest, brk |-> FALSE,
             log |-> [consumed |-> Append(log.consumed, action.val),
                      effects |-> log.effects]]
       ELSE [self |-> self, queue |-> d.rest, brk |-> TRUE, log |-> log]

\* (variant: the loop stops after a Click)
update_iteration_stops_at_click(self, queue, log) ==
    LET d == IF self.selectable_aabb.some THEN drain_pending_action(queue)
             ELSE [action |-> None, rest |-> queue]
        action == d.action
    IN IF action.some /\ action.val.kind = "Click"
       THEN [self |-> self, queue |-> d.rest, brk |-> TRUE,
             log |-> [consumed |-> Append(log.consumed, action.val),
                      effects |-> Append(log.effects, SelectFx)]]
       ELSE IF action.some /\ action.val.kind = "Drag"
       THEN [self |-> set_transform(self, action.val.new_isometry),
             queue |-> d.rest, brk |-> FALSE,
             log |-> [consumed |-> Append(log.consumed, action.val),
                      effects |-> Append(log.effects,
                                         SetTransformFx(action.val.new_isometry))]]
       ELSE [self |-> self, queue |-> d.rest, brk |-> TRUE, log |-> log]

\* (variant: the loop stops after a Drag, one move per tick)
update_iteration_one_drag(self, queue, log) ==
    LET d == IF self.selectable_aabb.some THEN drain_pending_action(queue)
             ELSE [action |-> None, rest |-> queue]
        action == d.action
    IN IF action.some /\ action.val.kind = "Click"
       THEN [self |-> self, queue |-> d.rest, brk |-> FALSE,
             log |-> [consumed |-> Append(log.consumed, action.val),
                      effects |-> Append(log.effects, SelectFx)]]
       ELSE IF action.some /\ action.val.kind = "Drag"
       THEN [self |-> set_transform(self, action.val.new_isometry),
             queue |-> d.rest, brk |-> TRUE,
             log |-> [consumed |-> Append(log.consumed, action.val),
                      effects |-> Append(log.effects,
                                         SetTransformFx(action.val.new_isometry))]]
       ELSE [self |-> self, queue |-> d.rest, brk |-> TRUE, log |-> log]

\* (variant: a second Click of the tick does not select again)
update_iteration_coalesces_clicks(self, queue, log) ==
    LET d == IF self.selectable_aabb.some THEN drain_pending_action(queue)
             ELSE [action |-> None, rest |-> queue]
        action == d.action
    IN IF action.some /\ action.val.kind = "Click"
       THEN [self |-> self, queue |-> d.rest, brk |-> FALSE,
             log |-> [consumed |-> Append(log.consumed, action.val),
                      effects |-> IF \E k \in 1..Len(log.effects) :
                                        log.effects[k] = SelectFx
                                  THEN log.effects
                                  ELSE Append(log.effects, SelectFx)]]
       ELSE IF action.some /\ action.val.kind = "Drag"
       THEN [self |-> set_transform(self, action.val.new_isometry),
             queue |-> d.rest, brk |-> FALSE,
             log |-> [consumed |-> Append(log.consumed, action.val),
                      effects |-> Append(log.effects,
                                         SetTransformFx(action.val.new_isometry))]]
       ELSE [self |-> self, queue |-> d.rest, brk |-> TRUE, log |-> log]

\* one pass of the loop body: the entity, the handle's queue and the tick's
\* record (actions drained, calls made) after it, and whether it broke
update_iteration(self, queue, log) ==
    LET d == IF self.selectable_aabb.some THEN drain_pending_action(queue)
             ELSE [action |-> None, rest |-> queue]
        action == d.action
    IN IF action.some /\ action.val.kind = "Click"
       THEN [self |-> self, queue |-> d.rest, brk |-> FALSE,
             log |-> [consumed |-> Append(log.consumed, action.val),
                      effects |-> Append(log.effects, SelectFx)]]
       ELSE IF action.some /\ action.val.kind = "Drag"
       THEN [self |-> set_transform(self, action.val.new_isometry),
             queue |-> d.rest, brk |-> FALSE,
             log |-> [consumed |-> Append(log.consumed, action.val),
                      effects |-> Append(log.effects,
                                         SetTransformFx(action.val.new_isometry))]]
       ELSE [self |-> self, queue |-> d.rest, brk |-> TRUE, log |-> log]

\* ------------------------------------------------ Dice::render (l.272-292)
\* Isometry3::to_homogeneous: the 4x4 matrix of a translation along x
to_homogeneous(isometry) ==
    << <<1, 0, 0, isometry>>, <<0, 1, 0, 0>>, <<0, 0, 1, 0>>, <<0, 0, 0, 1>> >>

\* ---------------------------------------------------------------- inputs
Coords == {F(c) : c \in 0..MaxCoord} \cup {NaN}
Positions == Coords \X Coords \X Coords
Origin == <<F(0), F(0), F(0)>>
SomeTangents == Some([tangent |-> <<F(1), F(0), F(0)>>])
SomeUv == Some(<<F(1), F(1)>>)
SomeNormal == Some(<<F(0), F(0), F(1)>>)
FullVertex(pos) == [pos |-> pos, tangents |-> SomeTangents, uv |-> SomeUv,
                    normal |-> SomeNormal]
\* vertices with every attribute, anywhere
PosVertices == {FullVertex(p) : p \in Positions}
\* vertices with any attribute missing, at two places
AttrVertices == [pos : {Origin, <<F(1), F(0), F(0)>>},
                 tangents : {None, SomeTangents},
                 uv : {None, SomeUv},
                 normal : {None, SomeNormal}]
OneMesh(vertices) ==
    [shader_ok |-> TRUE, obj_ok |-> TRUE, materials |-> 1,
     meshes |-> <<[material_index |-> Some(0), vertices |-> vertices]>>]
MeshKinds == [material_index : {None, Some(0), Some(1)},
              vertices : {<<>>, <<FullVertex(Origin)>>}]
StructRes == [shader_ok : BOOLEAN, obj_ok : BOOLEAN, materials : 0..1,
              meshes : SeqUpTo(MeshKinds, MaxMeshes)]
EmptyRes == OneMesh(<<>>)
SampleRes == OneMesh(<<FullVertex(<<F(0), F(0), F(0)>>),
                       FullVertex(<<F(1), F(0), F(0)>>),
                       FullVertex(<<F(0), F(1), F(0)>>)>>)
Resources == StructRes
             \cup {OneMesh(vs) : vs \in SeqUpTo(PosVertices, MaxVerts)}
             \cup {OneMesh(vs) : vs \in SeqUpTo(AttrVertices, MaxVerts)}
             \cup {SampleRes}
RuntimeResources == {EmptyRes, SampleRes}

Isometries == 0..MaxIso
Actions == {Click} \cup {Drag(i) : i \in Isometries}

\* ----------------------------------------------------------------- state
VARIABLES
    pc,       \* "unbuilt", "idle" (between calls), "update" (inside the loop)
    res,      \* what the resource loader and the shader service will give
    result,   \* how Dice::new ended: "Ok", "Err", "panic" ("none" before)
    vbo,      \* the vertex records uploaded
    out,      \* the lines printed during the upload
    dice,     \* the entity
    pending,  \* the pending actions of the entity's SelectableAABB
    last      \* the last call on the entity and what it did

vars == <<pc, res, result, vbo, out, dice, pending, last>>

Unbuilt ==
    /\ pc = "unbuilt"
    /\ result = "none"
    /\ vbo = <<>>
    /\ out = <<>>
    /\ dice = NoDice
    /\ pending = <<>>
    /\ last = [op |-> "none"]

Init == res \in RuntimeResources /\ Unbuilt

InitConstruct == res \in Resources /\ Unbuilt

New ==
    /\ pc = "unbuilt"
    /\ LET r == Dice_new(res)
       IN /\ result' = r.result
          /\ dice' = r.dice
          /\ vbo' = r.vbo
          /\ out' = r.out
          /\ pc' = IF r.result = "Ok" THEN "idle" ELSE "dead"
    /\ last' = [op |-> "new"]
    /\ UNCHANGED <<res, pending>>

\* the picking system queues an action on the entity's handle, between calls
Enqueue ==
    /\ pc = "idle"
    /\ dice.selectable_aabb.some
    /\ Len(pending) < MaxQueue
    /\ \E a \in Actions : pending' = Append(pending, a)
    /\ last' = [op |-> "enqueue"]
    /\ UNCHANGED <<pc, res, result, vbo, out, dice>>

\* a direct call of set_transform; `calls` counts (up to 2) the calls in a
\* row with this argument, `once` is the entity after the first of them
SetTransform ==
    /\ pc = "idle"
    /\ \E isometry \in Isometries :
         LET again == last.op = "set_transform" /\ last.arg = isometry
         IN /\ dice' = set_transform(dice, isometry)
            /\ last' = [op |-> "set_transform", arg |-> isometry,
                        calls |-> IF again THEN 2 ELSE 1,
                        once |-> IF again THEN last.once ELSE dice']
    /\ UNCHANGED <<pc, res, result, vbo, out, pending>>

Render ==
    /\ pc = "idle"
    /\ last' = [op |-> "render", model |-> to_homogeneous(dice.transform)]
    /\ UNCHANGED <<pc, res, result, vbo, out, dice, pending>>

\* update() is entered: the tick's record starts
Update ==
    /\ pc = "idle"
    /\ pc' = "update"
    /\ last' = [op |-> "update", queue0 |-> pending, dice0 |-> dice,
                consumed |-> <<>>, effects |-> <<>>, iters |-> 0,
                returned |-> FALSE]
    /\ UNCHANGED <<res, result, vbo, out, dice, pending>>

\* one pass of the loop of update(); it returns when the pass breaks
UpdateLoop ==
    /\ pc = "update"
    /\ LET r == update_iteration(dice, pending,
                                 [consumed |-> last.consumed, effects |-> last.effects])
       IN /\ dice' = r.self
          /\ pending' = r.queue
          /\ last' = [last EXCEPT !.consumed = r.log.consumed,
                                  !.effects = r.log.effects,
                                  !.iters = @ + 1,
                                  !.returned = r.brk]
          /\ pc' = IF r.brk THEN "idle" ELSE "update"
    /\ UNCHANGED <<res, result, vbo, out>>

Next == New \/ Enqueue \/ SetTransform \/ Render \/ Update \/ UpdateLoop

NextConstruct == New

Spec == Init /\ [][Next]_vars

\* update() runs to its return once entered: nothing else runs meanwhile
FairSpec == Spec /\ WF_vars(UpdateLoop)

ConstructSpec == InitConstruct /\ [][NextConstruct]_vars

\* ================================================================ claims
Built == result = "Ok"
Aabb == dice.selectable_aabb
Returned == last.op = "update" /\ last.returned
Count(s, x) == Len(SelectSeq(s, LAMBDA e : e = x))

\* C1: after Dice::new, through any update() ticks and set_transform()
\* calls, the stored transform, the pose last sent to the bounding volume
\* (when there is one) and the pose last sent to the overlay are equal;
\* right after construction all three are the identity.
PosesAgree ==
    Built =>
      /\ dice.debug_tangent_normals.isometry = dice.transform
      /\ (Aabb.some => Aabb.val.isometry = dice.transform)
      /\ (last.op = "new" => dice.transform = initial_isometry)
      /\ (last.op = "render" => last.model = to_homogeneous(dice.transform))

PosesAgreeWitness ==
    /\ Returned
    /\ Len(last.queue0) = 2
    /\ Aabb.some
    /\ last.dice0.transform = 1
    /\ dice.transform = 2
    /\ Aabb.val.isometry = 2
    /\ dice.debug_tangent_normals.isometry = 2

\* the calls a queue asks for, action by action
RECURSIVE EffectsOf(_)
EffectsOf(q) ==
    IF q = <<>> THEN <<>>
    ELSE <<IF Head(q) = Click THEN SelectFx ELSE SetTransformFx(Head(q).new_isometry)>>
         \o EffectsOf(Tail(q))

\* the new_isometry of the last Drag of q, or t when q has no Drag
LastDragOr(t, q) ==
    LET drags == SelectSeq(q, LAMBDA a : a.kind = "Drag")
    IN IF drags = <<>> THEN t ELSE drags[Len(drags)].new_isometry

\* C2: within one tick the actions are applied in the order they were
\* queued: the calls made so far, followed by those the rest of the queue
\* asks for, are the calls the queue at the start asked for; at the return
\* the transform is that of the last Drag of the queue (unchanged without a
\* Drag).
AppliedInQueueOrder ==
    last.op = "update" =>
      /\ last.effects \o EffectsOf(pending) = EffectsOf(last.queue0)
      /\ dice.transform = LastDragOr(last.dice0.transform, last.consumed)
      /\ (last.returned =>
            /\ last.effects = EffectsOf(last.queue0)
            /\ dice.transform = LastDragOr(last.dice0.transform, last.queue0))

AppliedInQueueOrderWitness ==
    /\ Returned
    /\ last.dice0.transform = 0
    /\ last.queue0 = <<Drag(1), Click, Drag(2)>>
    /\ last.effects = <<SetTransformFx(1), SelectFx, SetTransformFx(2)>>
    /\ dice.transform = 2

\* C3: one tick drains every queued action: when update() returns the
\* queue is empty and the actions drained are exactly those queued at the
\* start, each once; meanwhile drained and still-queued actions together
\* are the queue at the start.
DrainsAll ==
    last.op = "update" =>
      /\ last.consumed \o pending = last.queue0
      /\ Len(last.effects) = Len(last.consumed)
      /\ (last.returned => pending = <<>> /\ last.consumed = last.queue0)

DrainsAllWitness ==
    /\ Returned
    /\ Len(last.queue0) = 3
    /\ last.consumed = last.queue0
    /\ pending = <<>>

\* the passes of a tick are bounded by the queue it started with
IterationBound ==
    last.op = "update" =>
      /\ (~last.returned => last.iters + Len(pending) = Len(last.queue0))
      /\ (last.returned => last.iters = Len(last.queue0) + 1)
      /\ (last.returned /\ last.queue0 = <<>> =>
            dice = last.dice0 /\ last.effects = <<>> /\ last.consumed = <<>>)

\* C4: update() always returns, after as many passes as actions were
\* queued plus one; with an empty queue it returns at once and changes
\* nothing.
UpdateTerminates == [](IterationBound) /\ ((pc = "update") ~> (pc = "idle"))

UpdateTerminatesWitness ==
    /\ Returned
    /\ Len(last.queue0) = 3
    /\ last.iters = 4

\* what makes construction fail: the shader program, the mesh file, or no
\* mesh of the file carrying the chosen material index
ChosenIndex == IF res.materials > 0 THEN Some(0) ELSE None
FirstMatch ==
    IF \E k \in 1..Len(res.meshes) : res.meshes[k].material_index = ChosenIndex
    THEN Some(CHOOSE k \in 1..Len(res.meshes) :
                /\ res.meshes[k].material_index = ChosenIndex
                /\ \A j \in 1..(k - 1) : res.meshes[j].material_index # ChosenIndex)
    ELSE None
ConstructionFails == ~res.shader_ok \/ ~res.obj_ok \/ ~FirstMatch.some

\* C5: every construction-time failure (shader program, mesh file, no mesh
\* for the chosen material) makes Dice::new return an error value.
ConstructionFailureIsErr ==
    (pc # "unbuilt" /\ ConstructionFails) => result = "Err"

\* C6: set_transform(T) called twice in a row leaves the entity as one
\* call left it.
SetTransformIdempotent ==
    (last.op = "set_transform" /\ last.calls = 2) =>
      /\ dice = last.once
      /\ dice.transform = last.arg

SetTransformIdempotentWitness ==
    /\ last.op = "set_transform"
    /\ last.calls = 2
    /\ last.arg = 2
    /\ Aabb.some
    /\ Aabb.val.isometry = 2

NoNaN(vs) == \A k \in 1..Len(vs) : \A i \in 1..3 : ~vs[k].pos[i].nan

\* the box is the component-wise minimum and maximum of the uploaded
\* positions, and it is registered at the initial transform
BoxEncloses ==
    /\ Aabb.some
    /\ Aabb.val.isometry = initial_isometry
    /\ \A i \in 1..3 :
         /\ Le(Aabb.val.aabb.mins[i], Aabb.val.aabb.maxs[i])
         /\ \A k \in 1..Len(vbo) :
              /\ Le(Aabb.val.aabb.mins[i], vbo[k].pos[i])
              /\ Le(vbo[k].pos[i], Aabb.val.aabb.maxs[i])
         /\ \E k \in 1..Len(vbo) : vbo[k].pos[i] = Aabb.val.aabb.mins[i]
         /\ \E k \in 1..Len(vbo) : vbo[k].pos[i] = Aabb.val.aabb.maxs[i]

SampleBox == AABB_new(<<F(0), F(0), F(0)>>, <<F(1), F(1), F(0)>>)

\* C7 (as stated): for every non-empty vertex set the box has min <= max
\* on every axis, contains every vertex and is the minimal such box,
\* registered at the initial transform.
BoxEnclosesEveryVertexSet ==
    (Built /\ pc = "idle" /\ vbo # <<>>) => BoxEncloses

\* C7 (amended): the same for every non-empty vertex set none of whose
\* coordinates is NaN; the vertices (0,0,0), (1,0,0), (0,1,0) give the box
\* min (0,0,0), max (1,1,0).
BoxEnclosesNumbers ==
    /\ (Built /\ pc = "idle" /\ vbo # <<>> /\ NoNaN(vbo)) => BoxEncloses
    /\ (Built /\ pc = "idle" /\ res = SampleRes) => Aabb.val.aabb = SampleBox

BoxEnclosesNumbersWitness ==
    /\ Built
    /\ res = SampleRes
    /\ Len(vbo) = 3
    /\ Aabb = Some(selectable(SampleBox, initial_isometry))

\* C8: with an empty vertex set construction succeeds without a bounding
\* volume; every tick then returns after its first pass having changed
\* nothing and fired no select(); set_transform still stores the transform
\* and re-poses the overlay, and render uses the stored transform.
EmptyMeshInert ==
    /\ (pc # "unbuilt" /\ res = EmptyRes) => (Built /\ vbo = <<>>)
    /\ (Built /\ vbo = <<>>) =>
         /\ ~Aabb.some
         /\ pending = <<>>
         /\ (last.op = "update" =>
               /\ dice = last.dice0
               /\ last.effects = <<>>
               /\ last.iters = (IF last.returned THEN 1 ELSE 0))
         /\ (last.op = "set_transform" =>
               /\ dice.transform = last.arg
               /\ dice.debug_tangent_normals.isometry = last.arg)
         /\ (last.op = "render" => last.model = to_homogeneous(dice.transform))

EmptyMeshInertWitness ==
    /\ Built
    /\ vbo = <<>>
    /\ Returned
    /\ last.iters = 1
    /\ dice.transform = 2
    /\ dice.debug_tangent_normals.isometry = 2

\* the vertices of the mesh Dice::new uploads
SourceVertices == res.meshes[FirstMatch.val].vertices
Lacking(attr) == {k \in 1..Len(SourceVertices) : ~SourceVertices[k][attr].some}
Message(attr) ==
    IF attr = "tangents" THEN "Missing tangent vectors"
    ELSE IF attr = "uv" THEN "Missing uv vectors" ELSE "Missing normal vectors"
Attributes == {"tangents", "uv", "normal"}

\* one record per source vertex, in order, with the fallback where the
\* attribute is missing
RecordsFollowSource ==
    /\ Len(vbo) = Len(SourceVertices)
    /\ \A k \in 1..Len(vbo) :
         /\ vbo[k].pos = SourceVertices[k].pos
         /\ vbo[k].t = (IF SourceVertices[k].tangents.some
                        THEN SourceVertices[k].tangents.val.tangent
                        ELSE <<NaN, NaN, NaN>>)
         /\ vbo[k].uv = (IF SourceVertices[k].uv.some
                         THEN <<SourceVertices[k].uv.val[1], Neg(SourceVertices[k].uv.val[2])>>
                         ELSE <<F(0), F(0)>>)
         /\ vbo[k].n = (IF SourceVertices[k].normal.some
                        THEN SourceVertices[k].normal.val
                        ELSE <<F(0), F(0), F(0)>>)

\* C9 (as stated): the upload never aborts, every source vertex gives one
\* record in order with the fallbacks, and each category's diagnostic is
\* printed once when some vertex lacks the attribute, never otherwise.
DiagnosticOncePerCategory ==
    (Built /\ pc = "idle") =>
      /\ RecordsFollowSource
      /\ \A attr \in Attributes :
           Count(out, Message(attr)) = (IF Lacking(attr) = {} THEN 0 ELSE 1)

\* C9 (amended): the same, but each category's diagnostic is printed once
\* per vertex lacking the attribute.
DiagnosticPerLackingVertex ==
    (Built /\ pc = "idle") =>
      /\ RecordsFollowSource
      /\ Len(out) = Cardinality(Lacking("tangents")) + Cardinality(Lacking("uv"))
                    + Cardinality(Lacking("normal"))
      /\ \A attr \in Attributes :
           Count(out, Message(attr)) = Cardinality(Lacking(attr))

DiagnosticPerLackingVertexWitness ==
    /\ Built
    /\ Len(vbo) = 2
    /\ Lacking("tangents") = {1, 2}
    /\ Lacking("uv") = {2}
    /\ vbo[1].t = <<NaN, NaN, NaN>>
    /\ vbo[2].uv = <<F(0), F(0)>>
    /\ Count(out, "Missing tangent vectors") = 2
    /\ Count(out, "Missing uv vectors") = 1

\* a pass of the loop that drains a Click
ClickPass ==
    /\ pc = "update"
    /\ Aabb.some
    /\ pending # <<>>
    /\ Head(pending) = Click

\* at the return, as many select() as Clicks were queued
SelectPerClick ==
    Returned => Count(last.effects, SelectFx) = Count(last.queue0, Click)

\* C10: a Click fires one select(), leaves the transform and both poses
\* alone and does not stop the loop; Clicks are not coalesced, so a tick
\* fires as many select() as its queue held Clicks.
ClickSelectsOnce ==
    /\ [](SelectPerClick)
    /\ [][ClickPass =>
            /\ dice' = dice
            /\ pc' = "update"
            /\ pending' = Tail(pending)
            /\ last'.effects = Append(last.effects, SelectFx)]_vars

ClickSelectsOnceWitness ==
    /\ Returned
    /\ last.queue0 = <<Click, Drag(1), Click>>
    /\ Count(last.effects, SelectFx) = 2
    /\ dice.transform = 1
====
